---- MODULE Spec2Model ----
(***************************************************************************)
(* utils/helpers.py of CryptoModeler: the paginated OHLCV fetch loop       *)
(* (fetch_data) and the CSV wrappers (save_data, load_data).               *)
(*                                                                         *)
(* Time is counted in milliseconds since the epoch, as the exchange does;  *)
(* a pandas datetime is a count of nanoseconds.  The five numeric fields   *)
(* of a candle (open, high, low, close, volume) are carried as one opaque  *)
(* value, ohlcv: fetch_data never reads them.                              *)
(***************************************************************************)
EXTENDS Integers, Sequences, FiniteSets, TLC

\* ------------------------------------------------------------- bounds
\* Candle timestamps and dates range over 0..MaxT (+1 for the dates).
MaxT == 2
\* The most candles the modelled exchange puts in one page.
MaxPage == 3
\* The most rows the loop accumulates when the exchange answers arbitrarily.
MaxRows == MaxT + 1

\* ---------------------------------------------------------- constants
\* helpers.py:100  limit = 500
limit == 500
\* helpers.py:118  pd.to_datetime(..., unit='ms'): nanoseconds per millisecond
NsPerMs == 1000000

\* helpers.py:117, 156: the fixed six-column schema
SCHEMA == <<"timestamp", "open", "high", "low", "close", "volume">>
\* helpers.py:98: pd.DataFrame() has no columns and no rows
EmptyFrame == [columns |-> <<>>, rows |-> <<>>]

\* helpers.py:144  time.sleep(exchange.rateLimit / 1000)
SleepRateLimit == "exchange.rateLimit / 1000"
\* helpers.py:147  time.sleep(5)
SleepRetry == "5"

Vals == {"ohlcv_a", "ohlcv_b"}
Absent == "absent"
\* since before the first fetch_ohlcv call: below every timestamp
NoRequest == 0 - 1
NoFrame == [columns |-> <<"unset">>, rows |-> <<>>]

Min(a, b) == IF a <= b THEN a ELSE b

\* ------------------------------------------------------- conversions
\* helpers.py:118  pd.to_datetime(ms, unit='ms')
to_datetime(ms) == ms * NsPerMs
\* helpers.py:101, 102, 134  int(ts.timestamp() * 1000): truncation to ms
timestamp_ms(dt) == dt \div NsPerMs

\* The dates a caller passes ('YYYY-MM-DD hh:mm:ss': no fraction of a
\* millisecond, so that the conversions above lose nothing on them).
Dates == {to_datetime(t) : t \in 0..(MaxT + 1)}

\* ------------------------------------------------------ the exchange
\* A candle as the exchange sends it: epoch milliseconds and the values.
Candle(t, v) == [timestamp |-> t, ohlcv |-> v]

\* An exchange that holds a fixed set of candles, one per timestamp at most.
Books == [0..MaxT -> Vals \cup {Absent}]
NoBook == [t \in 0..MaxT |-> Absent]

RECURSIVE Ascending(_, _, _)
\* The candles of book b with lo <= timestamp <= hi, in ascending order.
Ascending(b, lo, hi) ==
  IF lo > hi THEN <<>>
  ELSE IF b[lo] = Absent THEN Ascending(b, lo + 1, hi)
  ELSE <<Candle(lo, b[lo])>> \o Ascending(b, lo + 1, hi)

\* Pages an exchange that answers arbitrarily may send: any non-empty list.
AnyPages ==
  UNION {[1..n -> {Candle(t, "ohlcv_a") : t \in 0..MaxT}] : n \in 1..MaxPage}

\* exchange.fetch_ohlcv(symbol, timeframe, since, limit): the answers the
\* exchange may give.  A book exchange sends the first k candles at or after
\* since (k >= 1 when there are any, at most lim and at most its own page
\* size); any other exchange sends what it likes.
fetch_ohlcv(srv, snc, lim) ==
  IF srv.mode = "book"
  THEN LET avail == Ascending(srv.book, IF snc < 0 THEN 0 ELSE snc, MaxT)
       IN  IF avail = <<>> THEN {<<>>}
           ELSE {SubSeq(avail, 1, k) : k \in 1..Min(Min(lim, MaxPage), Len(avail))}
  ELSE AnyPages \cup {<<>>}

\* ------------------------------------------------------------ state
VARIABLES
  pc,               \* "start", "loop", "waiting" (in fetch_ohlcv), "done"
  server,           \* the exchange: [mode, book]
  start_date,       \* argument, a datetime
  end_date,         \* argument, a datetime
  start_timestamp,  \* the cursor, ms
  end_timestamp,    \* ms
  all_data,         \* accumulated rows
  df_ochlv,         \* the returned frame (NoFrame before the return)
  since,            \* since of the latest fetch_ohlcv call, NoRequest if none
  outcome,          \* how the latest completed fetch_ohlcv call ended
  slept,            \* the sleeps since the latest fetch_ohlcv call was issued
  \* history, for the properties only
  fetched,          \* the filtered rows of every page received, in order
  npages,           \* pages received (non-empty responses)
  wellformed,       \* every page so far ascending and at or after its since
  retried,          \* a network error has occurred
  ever_slept,       \* time.sleep has been called
  dropped,          \* the filter has removed a row of some page
  \* the file system and the save_data / load_data calls made on it
  dirs,             \* the directories that exist (the working directory always does)
  files,            \* path -> the CSV text stored there, or NoFile
  fs_call,          \* the latest call: [op, path, data, raised]
  fs_prev,          \* the call before it
  loaded            \* what the latest load_data returned

fetch_vars == <<pc, server, start_date, end_date, start_timestamp, end_timestamp,
                all_data, df_ochlv, since, outcome, slept,
                fetched, npages, wellformed, retried, ever_slept, dropped>>
fs_vars == <<dirs, files, fs_call, fs_prev, loaded>>
vars == <<fetch_vars, fs_vars>>

\* ------------------------------------------------------- fetch_data
\* helpers.py:117-118  the page as a frame, timestamps as datetimes
BatchDf(ohlcv_data) ==
  [i \in 1..Len(ohlcv_data) |->
     [timestamp |-> to_datetime(ohlcv_data[i].timestamp),
      ohlcv |-> ohlcv_data[i].ohlcv]]

\* A filter that lets the end boundary through.
KeepRowInclusive(r, e) == r.timestamp <= e
\* helpers.py:121  batch_df[batch_df['timestamp'] < pd.to_datetime(end_date)]
KeepRow(r, e) == r.timestamp < e
FilterBefore(batch_df, e) == SelectSeq(batch_df, LAMBDA r : KeepRow(r, e))

\* A cursor left on the last row fetched.
NextCursorSame(r) == timestamp_ms(r.timestamp)
\* helpers.py:134  the cursor after a batch whose last row is r
NextCursor(r) == timestamp_ms(r.timestamp) + 1

\* helpers.py:155-157  df_ochlv = pd.DataFrame(all_data, columns=[...])
Returned(rows) == [columns |-> SCHEMA, rows |-> rows]

\* A page is in strictly ascending order and holds nothing before since.
WellFormedPage(p, snc) ==
  /\ \A i \in 1..Len(p) : p[i].timestamp >= snc
  /\ \A i \in 1..(Len(p) - 1) : p[i].timestamp < p[i + 1].timestamp

\* ------------------------------------------------ the file system
\* A path is the list of its components; os.path.dirname drops the last.
Paths == {<<"new_data.csv">>, <<"data", "btc.csv">>, <<"data", "raw", "btc.csv">>}
\* helpers.py:195  os.path.dirname(file_path)
dirname(path) == SubSeq(path, 1, Len(path) - 1)
\* The directories os.makedirs(d) leaves in existence: d and its parents.
Parents(d) == {SubSeq(d, 1, n) : n \in 1..Len(d)}

NoFile == [header |-> <<"no file">>, lines |-> <<>>]
None == [none |-> TRUE]
NoCall == [op |-> "none", path |-> <<>>, data |-> None, raised |-> "none"]

\* Cells of a frame, by dtype.
IntCell(n) == [dtype |-> "int64", v |-> n]
DatetimeCell(ns) == [dtype |-> "datetime64[ns]", v |-> ns]
\* An object cell holding the text that spells v.
TextCell(v) == [dtype |-> "object", v |-> v]

\* DataFrame.to_csv(index=False): a number is written as its literal, anything
\* else as its text.
CsvField(cell) ==
  IF cell.dtype = "int64" THEN [literal |-> "number", v |-> cell.v]
  ELSE [literal |-> "text", v |-> cell.v]
to_csv(data) ==
  [header |-> data.columns,
   lines |-> [i \in 1..Len(data.rows) |->
                [j \in 1..Len(data.rows[i]) |-> CsvField(data.rows[i][j])]]]

\* pd.read_csv with its defaults: a numeric literal parses to a number, any
\* other field stays text (dates are not parsed).
ParseField(f) == IF f.literal = "number" THEN IntCell(f.v) ELSE TextCell(f.v)
read_csv(csv) ==
  [columns |-> csv.header,
   rows |-> [i \in 1..Len(csv.lines) |->
               [j \in 1..Len(csv.lines[i]) |-> ParseField(csv.lines[i][j])]]]

\* The frames a caller saves: numeric tables, what fetch_data returns (a
\* datetime column and numbers), and pd.DataFrame().
Frames ==
  { [columns |-> <<"open", "close">>, rows |-> << <<IntCell(1), IntCell(2)>>, <<IntCell(3), IntCell(4)>> >>],
    [columns |-> <<"open", "close">>, rows |-> << <<IntCell(5), IntCell(6)>> >>],
    [columns |-> SCHEMA,
     rows |-> << <<DatetimeCell(to_datetime(0)), IntCell(1), IntCell(2), IntCell(0), IntCell(1), IntCell(9)>> >>],
    EmptyFrame }

FsIdle ==
  /\ dirs = {}
  /\ files = [p \in Paths |-> NoFile]
  /\ fs_call = NoCall
  /\ fs_prev = NoCall
  /\ loaded = NoFrame

Init ==
  /\ pc = "start"
  /\ server \in [mode : {"book"}, book : Books] \cup {[mode |-> "any", book |-> NoBook]}
  /\ start_date \in Dates
  /\ end_date \in Dates
  /\ start_timestamp = 0
  /\ end_timestamp = 0
  /\ all_data = <<>>
  /\ df_ochlv = NoFrame
  /\ since = NoRequest
  /\ outcome = "none"
  /\ slept = <<>>
  /\ fetched = <<>>
  /\ npages = 0
  /\ wellformed = TRUE
  /\ retried = FALSE
  /\ ever_slept = FALSE
  /\ dropped = FALSE
  /\ FsIdle

\* helpers.py:90-95, 100-105: the exchange client is built, the dates converted
InitExchangeOk ==
  /\ pc = "start"
  /\ pc' = "loop"
  /\ start_timestamp' = timestamp_ms(start_date)
  /\ end_timestamp' = timestamp_ms(end_date)
  /\ all_data' = <<>>
  /\ UNCHANGED <<server, start_date, end_date, df_ochlv, since, outcome, slept,
                 fetched, npages, wellformed, retried, ever_slept, dropped, fs_vars>>

\* helpers.py:96-98: building the client raised; return pd.DataFrame()
InitExchangeFail ==
  /\ pc = "start"
  /\ pc' = "done"
  /\ outcome' = "InitError"
  /\ df_ochlv' = EmptyFrame
  /\ UNCHANGED <<server, start_date, end_date, start_timestamp, end_timestamp,
                 all_data, since, slept, fetched, npages, wellformed, retried,
                 ever_slept, dropped, fs_vars>>

\* helpers.py:108 (condition false), 155-157
LoopExit ==
  /\ pc = "loop"
  /\ ~(start_timestamp < end_timestamp)
  /\ pc' = "done"
  /\ df_ochlv' = Returned(all_data)
  /\ UNCHANGED <<server, start_date, end_date, start_timestamp, end_timestamp,
                 all_data, since, outcome, slept, fetched, npages, wellformed,
                 retried, ever_slept, dropped, fs_vars>>

\* helpers.py:108 (condition true), 111: fetch_ohlcv is called with the cursor
Request ==
  /\ pc = "loop"
  /\ start_timestamp < end_timestamp
  /\ pc' = "waiting"
  /\ since' = start_timestamp
  /\ slept' = <<>>
  /\ UNCHANGED <<server, start_date, end_date, start_timestamp, end_timestamp,
                 all_data, df_ochlv, outcome, fetched, npages, wellformed,
                 retried, ever_slept, dropped, fs_vars>>

\* An empty response that is asked for again instead of ending the loop.
ReceiveEmptyContinues ==
  /\ pc = "waiting"
  /\ <<>> \in fetch_ohlcv(server, since, limit)
  /\ outcome' = "Empty"
  /\ pc' = "loop"
  /\ UNCHANGED <<server, start_date, end_date, start_timestamp, end_timestamp,
                 all_data, df_ochlv, since, slept, fetched, npages, wellformed,
                 retried, ever_slept, dropped, fs_vars>>

\* helpers.py:113-114, 155-157: an empty response ends the loop
ReceiveEmpty ==
  /\ pc = "waiting"
  /\ <<>> \in fetch_ohlcv(server, since, limit)
  /\ outcome' = "Empty"
  /\ pc' = "done"
  /\ df_ochlv' = Returned(all_data)
  /\ UNCHANGED <<server, start_date, end_date, start_timestamp, end_timestamp,
                 all_data, since, slept, fetched, npages, wellformed, retried,
                 ever_slept, dropped, fs_vars>>

\* helpers.py:116-144, 155-157: a non-empty response
ReceivePage ==
  /\ pc = "waiting"
  /\ \E ohlcv_data \in fetch_ohlcv(server, since, limit) \ {<<>>} :
       LET batch_df == FilterBefore(BatchDf(ohlcv_data), end_date)
           last == batch_df[Len(batch_df)]
       IN  \* the model's bound on all_data; pages that are ascending and at
           \* or after since never reach it
           /\ Len(all_data) + Len(batch_df) <= MaxRows
           /\ fetched' = fetched \o FilterBefore(BatchDf(ohlcv_data), end_date)
           /\ npages' = npages + 1
           /\ dropped' = (dropped \/ Len(batch_df) < Len(ohlcv_data))
           /\ wellformed' = (wellformed /\ WellFormedPage(ohlcv_data, since))
           /\ IF batch_df # <<>>
              THEN /\ all_data' = all_data \o batch_df
                   /\ start_timestamp' = NextCursor(last)
                   /\ outcome' = "Page"
                   /\ IF last.timestamp >= end_date
                      THEN /\ pc' = "done"
                           /\ df_ochlv' = Returned(all_data')
                           /\ UNCHANGED <<slept, ever_slept>>
                      ELSE /\ pc' = "loop"
                           /\ slept' = Append(slept, SleepRateLimit)
                           /\ ever_slept' = TRUE
                           /\ UNCHANGED df_ochlv
              ELSE /\ outcome' = "FilteredEmpty"
                   /\ pc' = "done"
                   /\ df_ochlv' = Returned(all_data)
                   /\ UNCHANGED <<all_data, start_timestamp, slept, ever_slept>>
  /\ UNCHANGED <<server, start_date, end_date, end_timestamp, since, retried, fs_vars>>

\* A network error handler that moves the cursor on.
NetworkErrorAdvances ==
  /\ pc = "waiting"
  /\ outcome' = "NetworkError"
  /\ start_timestamp' = start_timestamp + 1
  /\ slept' = Append(slept, SleepRetry)
  /\ ever_slept' = TRUE
  /\ retried' = TRUE
  /\ pc' = "loop"
  /\ UNCHANGED <<server, start_date, end_date, end_timestamp,
                 all_data, df_ochlv, since, fetched, npages, wellformed, dropped, fs_vars>>

\* A network error handler that retries at once.
NetworkErrorNoSleep ==
  /\ pc = "waiting"
  /\ outcome' = "NetworkError"
  /\ retried' = TRUE
  /\ pc' = "loop"
  /\ UNCHANGED <<server, start_date, end_date, start_timestamp, end_timestamp,
                 all_data, df_ochlv, since, slept, ever_slept, fetched, npages,
                 wellformed, dropped, fs_vars>>

\* helpers.py:145-147: a network error; sleep 5 s and go round the loop again
NetworkError ==
  /\ pc = "waiting"
  /\ outcome' = "NetworkError"
  /\ slept' = Append(slept, SleepRetry)
  /\ ever_slept' = TRUE
  /\ retried' = TRUE
  /\ pc' = "loop"
  /\ UNCHANGED <<server, start_date, end_date, start_timestamp, end_timestamp,
                 all_data, df_ochlv, since, fetched, npages, wellformed, dropped, fs_vars>>

\* An exchange error handler that gives up what was accumulated.
ExchangeErrorDrops ==
  /\ pc = "waiting"
  /\ outcome' = "ExchangeError"
  /\ pc' = "done"
  /\ df_ochlv' = Returned(<<>>)
  /\ UNCHANGED <<server, start_date, end_date, start_timestamp, end_timestamp,
                 all_data, since, slept, fetched, npages, wellformed, retried,
                 ever_slept, dropped, fs_vars>>

\* helpers.py:148-150, 155-157: an exchange error ends the loop
ExchangeError ==
  /\ pc = "waiting"
  /\ outcome' = "ExchangeError"
  /\ pc' = "done"
  /\ df_ochlv' = Returned(all_data)
  /\ UNCHANGED <<server, start_date, end_date, start_timestamp, end_timestamp,
                 all_data, since, slept, fetched, npages, wellformed, retried,
                 ever_slept, dropped, fs_vars>>

\* helpers.py:151-153, 155-157: any other exception ends the loop
UnexpectedError ==
  /\ pc = "waiting"
  /\ outcome' = "UnexpectedError"
  /\ pc' = "done"
  /\ df_ochlv' = Returned(all_data)
  /\ UNCHANGED <<server, start_date, end_date, start_timestamp, end_timestamp,
                 all_data, since, slept, fetched, npages, wellformed, retried,
                 ever_slept, dropped, fs_vars>>

\* ----------------------------------------------- save_data, load_data
\* save_data with the directory made before the dataset is looked at.
save_data_mkdir_first(data, file_path) ==
  IF dirname(file_path) = <<>>
  THEN /\ fs_call' = [op |-> "save", path |-> file_path, data |-> data,
                      raised |-> "FileNotFoundError"]
       /\ UNCHANGED <<dirs, files>>
  ELSE IF data = None
  THEN /\ dirs' = dirs \cup Parents(dirname(file_path))
       /\ fs_call' = [op |-> "save", path |-> file_path, data |-> data,
                      raised |-> "ValueError"]
       /\ UNCHANGED files
  ELSE /\ dirs' = dirs \cup Parents(dirname(file_path))
       /\ files' = [files EXCEPT ![file_path] = to_csv(data)]
       /\ fs_call' = [op |-> "save", path |-> file_path, data |-> data,
                      raised |-> "none"]

\* helpers.py:180-199
save_data(data, file_path) ==
  IF data = None
  THEN \* helpers.py:191-192
       /\ fs_call' = [op |-> "save", path |-> file_path, data |-> data,
                      raised |-> "ValueError"]
       /\ UNCHANGED <<dirs, files>>
  ELSE IF dirname(file_path) = <<>>
  THEN \* helpers.py:195  os.makedirs('', exist_ok=True) raises
       /\ fs_call' = [op |-> "save", path |-> file_path, data |-> data,
                      raised |-> "FileNotFoundError"]
       /\ UNCHANGED <<dirs, files>>
  ELSE \* helpers.py:195-199
       /\ dirs' = dirs \cup Parents(dirname(file_path))
       /\ files' = [files EXCEPT ![file_path] = to_csv(data)]
       /\ fs_call' = [op |-> "save", path |-> file_path, data |-> data,
                      raised |-> "none"]

SaveData ==
  /\ \E data \in Frames \cup {None}, file_path \in Paths : save_data(data, file_path)
  /\ fs_prev' = fs_call
  /\ UNCHANGED <<loaded, fetch_vars>>

\* helpers.py:159-178
load_data(file_path) ==
  IF files[file_path] = NoFile
  THEN \* helpers.py:172-173
       /\ fs_call' = [op |-> "load", path |-> file_path, data |-> None,
                      raised |-> "FileNotFoundError"]
       /\ UNCHANGED loaded
  ELSE IF files[file_path].header = <<>>
  THEN \* helpers.py:175  pd.read_csv finds no columns to parse
       /\ fs_call' = [op |-> "load", path |-> file_path, data |-> None,
                      raised |-> "EmptyDataError"]
       /\ UNCHANGED loaded
  ELSE \* helpers.py:175-178
       /\ fs_call' = [op |-> "load", path |-> file_path, data |-> None,
                      raised |-> "none"]
       /\ loaded' = read_csv(files[file_path])

LoadData ==
  /\ \E file_path \in Paths : load_data(file_path)
  /\ fs_prev' = fs_call
  /\ UNCHANGED <<dirs, files, fetch_vars>>

\* A process that only saves and loads: fetch_data is not running.
FsInit ==
  /\ pc = "start"
  /\ server = [mode |-> "any", book |-> NoBook]
  /\ start_date = to_datetime(0)
  /\ end_date = to_datetime(0)
  /\ start_timestamp = 0
  /\ end_timestamp = 0
  /\ all_data = <<>>
  /\ df_ochlv = NoFrame
  /\ since = NoRequest
  /\ outcome = "none"
  /\ slept = <<>>
  /\ fetched = <<>>
  /\ npages = 0
  /\ wellformed = TRUE
  /\ retried = FALSE
  /\ ever_slept = FALSE
  /\ dropped = FALSE
  /\ FsIdle

FsNext ==
  \/ SaveData
  \/ LoadData

FsSpec == FsInit /\ [][FsNext]_vars

Next ==
  \/ InitExchangeOk
  \/ InitExchangeFail
  \/ LoopExit
  \/ Request
  \/ ReceiveEmpty
  \/ ReceivePage
  \/ NetworkError
  \/ ExchangeError
  \/ UnexpectedError

Spec == Init /\ [][Next]_vars

\* The interpreter always takes its next step and every fetch_ohlcv call
\* returns or raises.
FairSpec == Spec /\ WF_vars(Next)

\* ======================================================== properties
StrictlyIncreasing(rows) ==
  \A i \in 1..(Len(rows) - 1) : rows[i].timestamp < rows[i + 1].timestamp
InRange(rows) ==
  \A i \in 1..Len(rows) : start_date <= rows[i].timestamp /\ rows[i].timestamp < end_date
IsPrefix(a, b) == Len(a) <= Len(b) /\ a = SubSeq(b, 1, Len(a))
Aborted == outcome \in {"ExchangeError", "UnexpectedError"}

\* C1 as stated: for start < end and whatever pages the exchange client
\* returns, the returned rows have strictly increasing timestamps, all with
\* start <= timestamp < end.
C1_AnyPagesOrdered ==
  (pc = "done" /\ start_date < end_date)
    => StrictlyIncreasing(df_ochlv.rows) /\ InRange(df_ochlv.rows)

\* C1 amended: for start < end, when every page the exchange client returns is
\* in strictly ascending timestamp order and holds no record before the since
\* it was asked with, the returned rows have strictly increasing timestamps,
\* all with start <= timestamp < end.
C1_OrderedInRange ==
  (pc = "done" /\ start_date < end_date /\ wellformed)
    => StrictlyIncreasing(df_ochlv.rows) /\ InRange(df_ochlv.rows)

C1_Witness ==
  /\ pc = "done" /\ start_date < end_date /\ wellformed
  /\ server.mode = "any" /\ npages >= 2 /\ Len(df_ochlv.rows) >= 2
  /\ Len(fetched) = Len(df_ochlv.rows)

\* The exchange's candles with start <= timestamp < end, as rows, in its order.
Expected ==
  BatchDf(SelectSeq(Ascending(server.book, 0, MaxT),
                    LAMBDA c : /\ start_date <= to_datetime(c.timestamp)
                               /\ to_datetime(c.timestamp) < end_date))

\* C2: against an exchange that holds a fixed set of candles and answers each
\* request with the first candles at or after since, fetch_data accumulates
\* the exchange's candles with start <= timestamp < end in the exchange's
\* order, each once, and returns exactly those; a candle at the end boundary
\* is left out.
C2_BookExact ==
  (server.mode = "book" /\ pc # "start" /\ outcome # "InitError")
    => /\ IsPrefix(all_data, Expected)
       /\ (pc = "done" /\ ~Aborted) => df_ochlv = Returned(Expected)

C2_Witness ==
  /\ server.mode = "book" /\ pc = "done" /\ ~Aborted /\ outcome # "InitError"
  /\ timestamp_ms(end_date) <= MaxT
  /\ server.book[timestamp_ms(end_date)] # Absent
  /\ Len(df_ochlv.rows) = 2 /\ npages = 1 /\ dropped

\* C3: a network error leaves the cursor and the accumulated rows as they
\* were and the loop asks again with the same since; the dataset returned is
\* the filtered pages received, whether or not network errors came between.
C3_RetrySameRequest ==
  [][ /\ (pc = "waiting" /\ outcome' = "NetworkError")
          => /\ pc' = "loop"
             /\ start_timestamp' = start_timestamp
             /\ start_timestamp' < end_timestamp'
             /\ all_data' = all_data
      /\ (pc = "loop" /\ outcome = "NetworkError" /\ pc' = "waiting")
          => since' = since
      /\ (pc' = "done" /\ outcome' # "InitError")
          => df_ochlv'.rows = fetched' ]_vars

C3_Witness ==
  /\ pc = "done" /\ retried /\ outcome \in {"Page", "FilteredEmpty", "Empty"}
  /\ npages >= 2 /\ Len(df_ochlv.rows) >= 2

\* C4: an exchange error, or any other exception that is not a network error,
\* ends the call: no further request, and the frame returned holds exactly
\* the filtered rows of the pages received before it, in order.
C4_PartialOnError ==
  Aborted => (pc = "done" /\ df_ochlv = Returned(fetched))

C4_Witness ==
  /\ outcome = "ExchangeError" /\ pc = "done"
  /\ npages >= 2 /\ Len(df_ochlv.rows) >= 2

\* C5 as stated: whatever the exchange does, the call eventually returns.
C5_Terminates == <>(pc = "done")

\* C5 amended: the call eventually returns provided network errors do not go
\* on for ever and every page is ascending and at or after its since.
C5_TerminatesWhenErrorsStop ==
  ([]wellformed /\ []<>(outcome # "NetworkError")) => <>(pc = "done")

C5_Witness ==
  /\ pc = "done" /\ retried /\ wellformed /\ npages >= 2
  /\ outcome = "Page" /\ Len(all_data) >= 2

\* C6: with start >= end the call returns an empty frame with the six-column
\* schema, having issued no request and slept not at all.
C6_EmptyRange ==
  (pc = "done" /\ start_date >= end_date)
    => /\ df_ochlv = Returned(<<>>)
       /\ since = NoRequest
       /\ ~ever_slept

\* C7: a call that returns with nothing fetched returns an empty frame that
\* carries the six-column schema, on every path.
C7_EmptyHasSchema ==
  (pc = "done" /\ df_ochlv.rows = <<>>) => df_ochlv.columns = SCHEMA

\* C8: save_data with None raises ValueError and leaves files and
\* directories as they were.
C8_NullSaveNoWrite ==
  [][ (fs_call'.op = "save" /\ fs_call'.data = None)
        => /\ fs_call'.raised = "ValueError"
           /\ files' = files
           /\ dirs' = dirs ]_vars

C8_Witness ==
  /\ fs_call.op = "save" /\ fs_call.data = None /\ fs_call.raised = "ValueError"
  /\ dirname(fs_call.path) # <<>> /\ dirname(fs_call.path) \notin dirs
  /\ \E p \in Paths : files[p] # NoFile

\* C9: save_data(data, path) with data not None, then load_data(path),
\* returns a frame equal to data, for every path.
C9_RoundTrip ==
  (/\ fs_call.op = "load" /\ fs_prev.op = "save"
   /\ fs_prev.path = fs_call.path /\ fs_prev.data # None)
    => /\ fs_prev.raised = "none"
       /\ fs_call.raised = "none"
       /\ loaded = fs_prev.data

\* One sleep, and the right one, between a request and the next.
OneSleepBetweenRequests ==
  /\ (pc = "loop" /\ since # NoRequest)
       => /\ outcome \in {"Page", "NetworkError"}
          /\ slept = <<IF outcome = "NetworkError" THEN SleepRetry ELSE SleepRateLimit>>
  /\ pc = "waiting" => slept = <<>>

\* C10 as stated: one sleep between consecutive requests (the rate-limit
\* interval after a page, 5 s after a network error) and none after the
\* request that ends the loop.
C10_NoSleepAfterLast ==
  /\ OneSleepBetweenRequests
  /\ (pc = "done" /\ since # NoRequest) => slept = <<>>

\* C10 amended: one sleep between consecutive requests, as above; none after
\* a request that breaks out of the loop (empty response, page empty after
\* filtering, exchange or other error); one rate-limit sleep after the last
\* request when the loop ends because the cursor has reached the end.
C10_Pacing ==
  /\ OneSleepBetweenRequests
  /\ (pc = "done" /\ since # NoRequest)
       => slept = (IF outcome = "Page" THEN <<SleepRateLimit>> ELSE <<>>)

C10_Witness ==
  /\ pc = "done" /\ outcome = "Page" /\ slept = <<SleepRateLimit>>
  /\ retried /\ npages >= 2

\* ------------------------------------------------- supporting facts
\* With the exchange client built, start >= end returns the empty frame with
\* the schema, and no request is made and no sleep taken.
EmptyRangeWhenBuilt ==
  (pc = "done" /\ start_date >= end_date /\ outcome # "InitError")
    => /\ df_ochlv = Returned(<<>>)
       /\ since = NoRequest
       /\ ~ever_slept

\* Every return but the one after a failed client construction carries the
\* schema.
SchemaWhenBuilt ==
  (pc = "done" /\ outcome # "InitError") => df_ochlv.columns = SCHEMA

\* A frame of numbers saved under a directory loads back equal.
NumericCells(data) ==
  /\ data.columns # <<>>
  /\ \A i \in 1..Len(data.rows) :
       \A j \in 1..Len(data.rows[i]) : data.rows[i][j].dtype = "int64"
RoundTripNumericInDirectory ==
  (/\ fs_call.op = "load" /\ fs_prev.op = "save"
   /\ fs_prev.path = fs_call.path /\ fs_prev.data # None
   /\ dirname(fs_prev.path) # <<>> /\ NumericCells(fs_prev.data))
    => /\ fs_prev.raised = "none"
       /\ fs_call.raised = "none"
       /\ loaded = fs_prev.data

====
